---- MODULE Spec2Model ----
(***************************************************************************)
(* Model of the GitHub Project Analyst agent: the seven data-fetch tools   *)
(* of github_tools.py and their HTTP helper, the web-search tool of        *)
(* web_search_tools.py, the session manager and the interactive loop of    *)
(* github_agent.py, and the POST /chat handler of github_agent_api.py.     *)
(*                                                                         *)
(* JSON values are tagged records (t = "null", "bool", "num", "str",       *)
(* "obj", "list", "odict"); a Python dict is a TLA+ function from its keys *)
(* to values, so an absent key is a key outside its DOMAIN.  A dict whose  *)
(* key order is observable (the languages map) is an "odict": a sequence   *)
(* of key/value pairs in insertion order.                                  *)
(***************************************************************************)
EXTENDS Integers, Sequences, FiniteSets, TLC

VARIABLES
    TAVILY_API_KEY,   \* web_search_tools.TAVILY_API_KEY: "unset", "empty" or "set"
    tavily_client,    \* web_search_tools.tavily_client: "None" or "client"
    tools_list,       \* the tools handed to Agent(...) by __init__
    sessions,         \* session ids the oracle has created, in creation order
    turns,            \* per session id: the number of turns completed on it
    chat_result,      \* what the last create_session/_chat call gave its caller
    pc,               \* the tool invocation at hand: "idle", "called" or "returned"
    tool,             \* name of the tool the oracle invokes
    args,             \* the arguments of the invocation
    net,              \* what the network (or the search provider) does to it
    request,          \* the GETs (or provider searches) the invocation issued
    data,             \* how _make_github_request ended: its return value or a raise
    out,              \* what the tool gave its caller: a JSON text or a raise
    agent_instance,   \* github_agent_api.agent_instance: TRUE once startup built the agent
    inbox,            \* POST /chat requests the event loop has not started yet, oldest first
    submitted,        \* the number of POST /chat requests received so far
    handler,          \* the chat_with_agent call the event loop is running
    response,         \* the last answer the API gave to a POST /chat
    active,           \* the create_turn calls the oracle has not answered yet
    cli               \* interactive_mode: its position, session and last print

vars == <<TAVILY_API_KEY, tavily_client, tools_list, sessions, turns,
          chat_result, pc, tool, args, net, request, data, out,
          agent_instance, inbox, submitted, handler, response, active, cli>>

agentVars == <<tools_list, sessions, turns, chat_result>>
callVars == <<pc, tool, args, net, request, data, out>>
inputVars == <<tool, args, net>>
configVars == <<TAVILY_API_KEY, tavily_client>>
apiVars == <<agent_instance, inbox, submitted, handler, response>>
frontVars == <<apiVars, active, cli>>

-----------------------------------------------------------------------------
(* Bounds of the model *)

MaxItems == 2      \* longest upstream list (contributors, issues, ...)
MaxBytes == 3      \* largest byte count of one language
MaxSessions == 2   \* most sessions created on one agent
MaxTurns == 2      \* most turns sent to one session
MaxRequests == 2   \* most POST /chat requests received by the API

-----------------------------------------------------------------------------
(* JSON values *)

Null == [t |-> "null"]
Bool(b) == [t |-> "bool", b |-> b]
Num(n) == [t |-> "num", n |-> n]
Str(s) == [t |-> "str", s |-> s]
\* a string whose characters matter: a sequence of character codes
Text(c) == [t |-> "str", chars |-> c]
\* an f-string: a fixed prefix followed by str(e)
Msg(prefix, e) == [t |-> "str", prefix |-> prefix, e |-> e]
Obj(f) == [t |-> "obj", f |-> f]
List(s) == [t |-> "list", items |-> s]
ODict(s) == [t |-> "odict", items |-> s]

EmptyObj == Obj([k \in {} |-> Null])
EmptyList == List(<<>>)

IsNull(v) == v.t = "null"
IsObj(v) == v.t = "obj"
IsList(v) == v.t = "list"

\* Python truthiness: None, False, 0, "", {} and [] are falsy
Truthy(v) ==
    CASE v.t = "null" -> FALSE
      [] v.t = "bool" -> v.b
      [] v.t = "num" -> v.n # 0
      [] v.t = "str" -> IF "chars" \in DOMAIN v THEN Len(v.chars) > 0
                        ELSE IF "s" \in DOMAIN v THEN v.s # "" ELSE TRUE
      [] v.t = "obj" -> DOMAIN v.f # {}
      [] v.t = "list" -> Len(v.items) > 0
      [] v.t = "odict" -> Len(v.items) > 0

\* dict.get(k): the value, None when the key is absent
Get(d, k) == IF k \in DOMAIN d.f THEN d.f[k] ELSE Null
\* dict.get(k, default): the default only when the key is absent, so a key
\* present with the value None yields None
GetD(d, k, dflt) == IF k \in DOMAIN d.f THEN d.f[k] ELSE dflt

\* a slip in `"error" in data`: the key of GitHub's own error bodies is tested
HasMessage(d) == d.t = "obj" /\ "message" \in DOMAIN d.f

\* `"error" in data`: key membership for a dict, element membership for a list
HasError(d) ==
    CASE d.t = "obj" -> "error" \in DOMAIN d.f
      [] d.t = "odict" -> \E i \in 1..Len(d.items) : d.items[i].k = "error"
      [] d.t = "list" -> \E i \in 1..Len(d.items) :
                            d.items[i].t = "str" /\ "s" \in DOMAIN d.items[i]
                            /\ d.items[i].s = "error"
      [] OTHER -> FALSE

\* json.dumps(x): the compact encoding; json.dumps(x, indent=2): the indented one
JsonDumps(v) == [json |-> v, layout |-> "compact"]
JsonDumpsIndent(v, n) == [json |-> v, layout |-> "indent", width |-> n]

Returned(text) == [raised |-> FALSE, text |-> text]
Raised(exc) == [raised |-> TRUE, exc |-> exc]
NoOut == [raised |-> FALSE, text |-> JsonDumps(Null)]

-----------------------------------------------------------------------------
(* The HTTP client helper, github_tools._make_github_request *)

\* What the network can do to one requests.get call: fail below HTTP
\* (requests raises a RequestException subclass), or answer with a final
\* status and a body that is JSON (json |-> the value) or is not.
StatusCodes == {200, 304, 404, 500}
\* the statuses GitHub sends with an error body instead of the resource
ErrorStatuses == {404, 500}
NetworkFailures == {"ConnectionError", "Timeout", "TooManyRedirects"}

Failure(exc) == [kind |-> "failure", exc |-> exc]
\* jsonErr: the exception response.json() reports a body that is not JSON
\* with: one derived from RequestException (requests >= 2.27) or a plain
\* ValueError (older releases), which the except clause does not catch
Response(status, body) ==
    [kind |-> "response", status |-> status, isJson |-> TRUE, body |-> body]
NotJson(status, jsonErr) ==
    [kind |-> "response", status |-> status, isJson |-> FALSE, jsonErr |-> jsonErr]

\* a slip in the status test: only server errors raise
RaisesForServerError(status) == 500 <= status /\ status < 600

\* Response.raise_for_status() raises HTTPError for 4xx and 5xx statuses only
RaisesForStatus(status) == 400 <= status /\ status < 600

\* str(e) of the exception a failed attempt ends in
ExcText(o) ==
    IF o.kind = "failure" THEN o.exc
    ELSE IF ~RaisesForStatus(o.status) THEN "JSONDecodeError"
    ELSE IF o.status < 500 THEN "Client Error" ELSE "Server Error"

ErrorDict(e) == Obj([k \in {"error"} |-> Msg("API request failed: ", e)])

\* the GET attempts one helper call makes
Attempts(endpoint, params) == << [endpoint |-> endpoint, params |-> params] >>

\* _make_github_request(endpoint, params) when the network does `o`
MakeGithubRequest(endpoint, params, o) ==
    LET sent == Attempts(endpoint, params) IN
    IF o.kind = "failure"
      THEN [sent |-> sent, raised |-> FALSE, ret |-> ErrorDict(ExcText(o))]
    ELSE IF RaisesForStatus(o.status)
      THEN [sent |-> sent, raised |-> FALSE, ret |-> ErrorDict(ExcText(o))]
    ELSE IF o.isJson
      THEN [sent |-> sent, raised |-> FALSE, ret |-> o.body]
    ELSE IF o.jsonErr = "RequestException"
      THEN [sent |-> sent, raised |-> FALSE, ret |-> ErrorDict(ExcText(o))]
    ELSE [sent |-> sent, raised |-> TRUE, ret |-> Null]

\* per_page as the caller gives it: omitted, or a number
PerPageGiven == {0, 1, 99, 100, 101, 500}
PerPageArgs == {[given |-> FALSE]} \cup {[given |-> TRUE, n |-> n] : n \in PerPageGiven}

Min(a, b) == IF a <= b THEN a ELSE b

\* the default of the per_page parameter in each tool's signature
DefaultPerPage(name) ==
    CASE name = "get_repository_contributors" -> 30
      [] name = "get_repository_issues" -> 30
      [] name = "get_repository_pulls" -> 30
      [] name = "get_repository_releases" -> 10
      [] name = "search_repositories" -> 10

\* a slip in the clamp: per_page is sent as given
PerPageAsGiven(n) == n

\* min(per_page, 100)
ClampPerPage(n) == Min(n, 100)

\* the per_page entry of params
PerPageParam(name, pp) ==
    ClampPerPage(IF pp.given THEN pp.n ELSE DefaultPerPage(name))

-----------------------------------------------------------------------------
(* Upstream payloads: the inputs the tools are run on *)

\* a dict from a set of <<key, value>> pairs with distinct keys
MkObj(S) == Obj([k \in {p[1] : p \in S} |-> (CHOOSE p \in S : p[1] = k)[2]])

\* one upstream field: left out, sent as null, or sent with value v
Variants == {"absent", "null", "present"}
Opt(k, variant, v) ==
    IF variant = "absent" THEN {}
    ELSE {<<k, IF variant = "null" THEN Null ELSE v>>}
OptAll(keys, variant, v) == UNION {Opt(k, variant, v) : k \in keys}

\* sequences over S of length 0..n
RECURSIVE SeqsUpTo(_, _)
SeqsUpTo(S, n) ==
    IF n = 0 THEN {<<>>}
    ELSE LET shorter == SeqsUpTo(S, n - 1) IN
         shorter \cup {Append(q, x) : q \in {r \in shorter : Len(r) = n - 1}, x \in S}

Owner == "octocat"
Repo == "hello-world"
NoParams == [k \in {} |-> 0]

ErrorBody == Obj([k \in {"message"} |-> Str("Not Found")])

\* what one GET can end in, given the JSON bodies the endpoint can send
Outcomes(bodies) ==
    {Failure(e) : e \in NetworkFailures}
    \cup {Response(st, b) : st \in StatusCodes \ ErrorStatuses, b \in bodies}
    \cup {Response(st, ErrorBody) : st \in ErrorStatuses}
    \cup {NotJson(st, e) : st \in StatusCodes, e \in {"RequestException", "ValueError"}}

\* The invocations of tool `name` the oracle can make, each with what the
\* network does to its GET: every argument choice against the payload
\* `sample`, and the default arguments against every payload.  (A tool
\* builds its params before the GET and never reads them afterwards.)
CallsOf(name, argset, dflt, sample, payloads) ==
    {[tool |-> name, args |-> a, net |-> o] : a \in argset, o \in Outcomes({sample})}
    \cup {[tool |-> name, args |-> dflt, net |-> o] : o \in Outcomes(payloads)}

LicenseValues ==
    {Null, EmptyObj, MkObj({<<"name", Str("MIT License")>>, <<"key", Str("mit")>>}),
     MkObj({<<"key", Str("other")>>})}

-----------------------------------------------------------------------------
(* get_repository_info *)

InfoSimpleKeys ==
    {"name", "full_name", "description", "language", "stargazers_count",
     "forks_count", "open_issues_count", "created_at", "updated_at", "size",
     "default_branch", "homepage", "clone_url", "ssh_url"}
InfoExtraKeys == {"id", "private", "watchers_count"}

InfoPayloads ==
    {MkObj(OptAll(InfoSimpleKeys, sv, Str("v"))
           \cup OptAll(InfoExtraKeys, ev, Str("x"))
           \cup Opt("topics", tv, List(<<Str("cli")>>))
           \cup lic \cup err) :
        sv \in Variants, ev \in {"absent", "present"}, tv \in Variants,
        lic \in {{}} \cup {{<<"license", l>>} : l \in LicenseValues},
        err \in {{}, {<<"error", Str("x")>>}}}

\* data.get("license", {}).get("name") if data.get("license") else None
LicenseRaises(d) ==
    Truthy(Get(d, "license")) /\ ~IsObj(GetD(d, "license", EmptyObj))
LicenseName(d) ==
    IF Truthy(Get(d, "license")) THEN Get(GetD(d, "license", EmptyObj), "name")
    ELSE Null

\* the upstream key each output key of repo_info is read from
InfoSource(k) ==
    CASE k = "stars" -> "stargazers_count"
      [] k = "forks" -> "forks_count"
      [] k = "open_issues" -> "open_issues_count"
      [] OTHER -> k
InfoKeys ==
    {"name", "full_name", "description", "language", "stars", "forks",
     "open_issues", "created_at", "updated_at", "size", "default_branch",
     "topics", "license", "homepage", "clone_url", "ssh_url"}

RepoInfo(d) ==
    Obj([k \in InfoKeys |->
            CASE k = "topics" -> GetD(d, "topics", EmptyList)
              [] k = "license" -> LicenseName(d)
              [] OTHER -> Get(d, InfoSource(k))])

\* the tool's result once the helper has returned h
GetRepositoryInfo(h) ==
    IF h.raised THEN Raised("ValueError")
    ELSE IF HasError(h.ret) THEN Returned(JsonDumps(h.ret))
    ELSE IF LicenseRaises(h.ret) THEN Raised("AttributeError")
    ELSE Returned(JsonDumpsIndent(RepoInfo(h.ret), 2))

\* one invocation of a data-fetch tool: the helper's GET and the tool's result
\* what the helper handed the tool: its return value, or the exception
\* that passed through it
HelperData(h) == [raised |-> h.raised, ret |-> h.ret]

InfoCalls ==
    CallsOf("get_repository_info", {[owner |-> Owner, repo |-> Repo]}, [owner |-> Owner, repo |-> Repo], EmptyObj, InfoPayloads)

get_repository_info ==
    /\ pc = "called"
    /\ tool = "get_repository_info"
    /\ LET h == MakeGithubRequest(<<"repos", args.owner, args.repo>>,
                                  NoParams, net)
       IN /\ request' = h.sent
          /\ data' = HelperData(h)
          /\ out' = GetRepositoryInfo(h)
    /\ pc' = "returned"
    /\ UNCHANGED <<inputVars, configVars, agentVars, frontVars>>

-----------------------------------------------------------------------------
(* get_repository_contributors *)

ContributorKeys == {"login", "contributions", "type", "html_url"}
ContributorEntries ==
    {MkObj(OptAll(ContributorKeys, v, Str("v"))) : v \in Variants}
ContributorPayloads == {List(q) : q \in SeqsUpTo(ContributorEntries, MaxItems)}

Contributor(c) ==
    MkObj({<<"login", Get(c, "login")>>,
           <<"contributions", Get(c, "contributions")>>,
           <<"type", Get(c, "type")>>,
           <<"profile_url", Get(c, "html_url")>>})

\* `for x in data`: only a list of dicts is walked without an error
Walkable(d) == IsList(d) /\ \A i \in 1..Len(d.items) : IsObj(d.items[i])

GetRepositoryContributors(h) ==
    IF h.raised THEN Raised("ValueError")
    ELSE IF HasError(h.ret) THEN Returned(JsonDumps(h.ret))
    ELSE IF ~Walkable(h.ret) THEN Raised("AttributeError")
    ELSE Returned(JsonDumpsIndent(
            List([i \in 1..Len(h.ret.items) |-> Contributor(h.ret.items[i])]), 2))

ContributorCalls ==
    CallsOf("get_repository_contributors",
            {[owner |-> Owner, repo |-> Repo, per_page |-> pp] : pp \in PerPageArgs},
            [owner |-> Owner, repo |-> Repo, per_page |-> [given |-> FALSE]],
            EmptyList, ContributorPayloads)

get_repository_contributors ==
    /\ pc = "called"
    /\ tool = "get_repository_contributors"
    /\ LET h == MakeGithubRequest(<<"repos", args.owner, args.repo, "contributors">>,
                                  [per_page |-> PerPageParam(tool, args.per_page)], net)
       IN /\ request' = h.sent
          /\ data' = HelperData(h)
          /\ out' = GetRepositoryContributors(h)
    /\ pc' = "returned"
    /\ UNCHANGED <<inputVars, configVars, agentVars, frontVars>>

-----------------------------------------------------------------------------
(* get_repository_issues *)

StateArgs == {[given |-> FALSE], [given |-> TRUE, s |-> "closed"]}
\* state: str = "open"
StateParam(st) == IF st.given THEN st.s ELSE "open"

User == MkObj({<<"login", Str("octocat")>>, <<"id", Num(1)>>})
Labels == List(<<MkObj({<<"name", Str("bug")>>}), MkObj({<<"color", Str("red")>>})>>)
Assignees == List(<<MkObj({<<"login", Str("hubot")>>})>>)

\* the pull_request field of an entry of the issues endpoint
PullRequestValues ==
    {Null, EmptyObj, Bool(FALSE), MkObj({<<"url", Str("https://api.github.com/pulls/1")>>})}
PullRequestChoices == {{}} \cup {{<<"pull_request", v>>} : v \in PullRequestValues}

\* which of an entry's nested fields are null or left out
NestedShapes(keys) == {"present", "absent", "null"} \cup keys

NestedField(k, shape, v) ==
    IF shape = "absent" THEN {}
    ELSE {<<k, IF shape = "null" \/ shape = k THEN Null ELSE v>>}

IssueSimpleKeys == {"title", "state", "created_at", "updated_at", "comments", "html_url"}

IssueShapes ==
    {[pr |-> p, nested |-> "present"] : p \in PullRequestChoices}
    \cup {[pr |-> {}, nested |-> n] : n \in NestedShapes({"user", "labels", "assignees"})}

IssueEntry(n, shape) ==
    MkObj({<<"number", Num(n)>>}
          \cup shape.pr
          \cup OptAll(IssueSimpleKeys,
                      IF shape.nested \in {"absent", "null"} THEN shape.nested ELSE "present",
                      Str("v"))
          \cup NestedField("user", shape.nested, User)
          \cup NestedField("labels", shape.nested, Labels)
          \cup NestedField("assignees", shape.nested, Assignees))

IssuePayloads ==
    {List([i \in 1..Len(q) |-> IssueEntry(i, q[i])]) : q \in SeqsUpTo(IssueShapes, MaxItems)}

\* [x.get(k) for x in v]
Pluck(v, k) == List([i \in 1..Len(v.items) |-> Get(v.items[i], k)])

\* `if issue.get("pull_request"): continue`
IsPullRequest(issue) == Truthy(Get(issue, "pull_request"))
IsIssue(issue) == ~IsPullRequest(issue)

\* the exception building one issue record ends in, "" when it builds
IssueError(issue) ==
    IF ~Walkable(GetD(issue, "labels", EmptyList)) THEN "TypeError"
    ELSE IF ~Walkable(GetD(issue, "assignees", EmptyList)) THEN "TypeError"
    ELSE IF ~IsObj(GetD(issue, "user", EmptyObj)) THEN "AttributeError"
    ELSE ""

Issue(issue) ==
    MkObj({<<"number", Get(issue, "number")>>,
           <<"title", Get(issue, "title")>>,
           <<"state", Get(issue, "state")>>,
           <<"created_at", Get(issue, "created_at")>>,
           <<"updated_at", Get(issue, "updated_at")>>,
           <<"labels", Pluck(GetD(issue, "labels", EmptyList), "name")>>,
           <<"assignees", Pluck(GetD(issue, "assignees", EmptyList), "login")>>,
           <<"comments", Get(issue, "comments")>>,
           <<"author", Get(GetD(issue, "user", EmptyObj), "login")>>,
           <<"url", Get(issue, "html_url")>>})

\* the exception the first failing entry of a walk ends in, "" when none
\* fails; errors[i] is the exception entry i ends in
FirstError(errors) ==
    IF \A i \in 1..Len(errors) : errors[i] = "" THEN ""
    ELSE errors[CHOOSE i \in 1..Len(errors) :
                    /\ errors[i] # ""
                    /\ \A j \in 1..(i - 1) : errors[j] = ""]

GetRepositoryIssues(h) ==
    IF h.raised THEN Raised("ValueError")
    ELSE IF HasError(h.ret) THEN Returned(JsonDumps(h.ret))
    ELSE IF ~Walkable(h.ret) THEN Raised("AttributeError")
    ELSE LET kept == SelectSeq(h.ret.items, IsIssue)
             err == FirstError([i \in 1..Len(kept) |-> IssueError(kept[i])])
         IN IF err # "" THEN Raised(err)
            ELSE Returned(JsonDumpsIndent(
                    List([i \in 1..Len(kept) |-> Issue(kept[i])]), 2))

IssueCalls ==
    CallsOf("get_repository_issues",
            {[owner |-> Owner, repo |-> Repo, state |-> st, per_page |-> pp] :
                st \in StateArgs, pp \in PerPageArgs},
            [owner |-> Owner, repo |-> Repo, state |-> [given |-> FALSE],
             per_page |-> [given |-> FALSE]],
            EmptyList, IssuePayloads)

get_repository_issues ==
    /\ pc = "called"
    /\ tool = "get_repository_issues"
    /\ LET h == MakeGithubRequest(<<"repos", args.owner, args.repo, "issues">>,
                                  [state |-> StateParam(args.state),
                                   per_page |-> PerPageParam(tool, args.per_page)], net)
       IN /\ request' = h.sent
          /\ data' = HelperData(h)
          /\ out' = GetRepositoryIssues(h)
    /\ pc' = "returned"
    /\ UNCHANGED <<inputVars, configVars, agentVars, frontVars>>

-----------------------------------------------------------------------------
(* get_repository_pulls *)

Branch(ref) == MkObj({<<"ref", Str(ref)>>, <<"sha", Str("abc")>>})

PullSimpleKeys ==
    {"title", "state", "created_at", "updated_at", "merged_at", "additions",
     "deletions", "changed_files", "comments", "review_comments", "html_url"}

PullShapes == NestedShapes({"user", "base", "head"})

PullEntry(n, shape) ==
    MkObj({<<"number", Num(n)>>}
          \cup OptAll(PullSimpleKeys,
                      IF shape \in {"absent", "null"} THEN shape ELSE "present", Str("v"))
          \cup NestedField("user", shape, User)
          \cup NestedField("base", shape, Branch("main"))
          \cup NestedField("head", shape, Branch("feature")))

PullPayloads ==
    {List([i \in 1..Len(q) |-> PullEntry(i, q[i])]) : q \in SeqsUpTo(PullShapes, MaxItems)}

PullError(pr) ==
    IF ~IsObj(GetD(pr, "user", EmptyObj)) THEN "AttributeError"
    ELSE IF ~IsObj(GetD(pr, "base", EmptyObj)) THEN "AttributeError"
    ELSE IF ~IsObj(GetD(pr, "head", EmptyObj)) THEN "AttributeError"
    ELSE ""

Pull(pr) ==
    MkObj({<<"number", Get(pr, "number")>>,
           <<"title", Get(pr, "title")>>,
           <<"state", Get(pr, "state")>>,
           <<"created_at", Get(pr, "created_at")>>,
           <<"updated_at", Get(pr, "updated_at")>>,
           <<"merged_at", Get(pr, "merged_at")>>,
           <<"author", Get(GetD(pr, "user", EmptyObj), "login")>>,
           <<"base_branch", Get(GetD(pr, "base", EmptyObj), "ref")>>,
           <<"head_branch", Get(GetD(pr, "head", EmptyObj), "ref")>>,
           <<"additions", Get(pr, "additions")>>,
           <<"deletions", Get(pr, "deletions")>>,
           <<"changed_files", Get(pr, "changed_files")>>,
           <<"comments", Get(pr, "comments")>>,
           <<"review_comments", Get(pr, "review_comments")>>,
           <<"url", Get(pr, "html_url")>>})

GetRepositoryPulls(h) ==
    IF h.raised THEN Raised("ValueError")
    ELSE IF HasError(h.ret) THEN Returned(JsonDumps(h.ret))
    ELSE IF ~Walkable(h.ret) THEN Raised("AttributeError")
    ELSE LET err == FirstError([i \in 1..Len(h.ret.items) |-> PullError(h.ret.items[i])])
         IN IF err # "" THEN Raised(err)
            ELSE Returned(JsonDumpsIndent(
                    List([i \in 1..Len(h.ret.items) |-> Pull(h.ret.items[i])]), 2))

PullCalls ==
    CallsOf("get_repository_pulls",
            {[owner |-> Owner, repo |-> Repo, state |-> st, per_page |-> pp] :
                st \in StateArgs, pp \in PerPageArgs},
            [owner |-> Owner, repo |-> Repo, state |-> [given |-> FALSE],
             per_page |-> [given |-> FALSE]],
            EmptyList, PullPayloads)

get_repository_pulls ==
    /\ pc = "called"
    /\ tool = "get_repository_pulls"
    /\ LET h == MakeGithubRequest(<<"repos", args.owner, args.repo, "pulls">>,
                                  [state |-> StateParam(args.state),
                                   per_page |-> PerPageParam(tool, args.per_page)], net)
       IN /\ request' = h.sent
          /\ data' = HelperData(h)
          /\ out' = GetRepositoryPulls(h)
    /\ pc' = "returned"
    /\ UNCHANGED <<inputVars, configVars, agentVars, frontVars>>

-----------------------------------------------------------------------------
(* get_repository_releases *)

BodyLimit == 500
Ellipsis == <<46, 46, 46>>    \* "..."

\* a body of n characters, no two neighbours alike
BodyText(n) == Text([i \in 1..n |-> 97 + (i % 26)])
BodyLengths == {0, BodyLimit - 100, BodyLimit, BodyLimit + 1, BodyLimit + 100}
BodyChoices ==
    {{}, {<<"body", Null>>}} \cup {{<<"body", BodyText(n)>>} : n \in BodyLengths}

Assets == List(<<MkObj({<<"name", Str("a.tar.gz")>>}), MkObj({<<"name", Str("a.zip")>>})>>)

ReleaseSimpleKeys ==
    {"name", "tag_name", "published_at", "created_at", "prerelease", "draft", "html_url"}

ReleaseShapes ==
    {[body |-> b, nested |-> "present"] : b \in BodyChoices}
    \cup {[body |-> {<<"body", BodyText(BodyLimit + 1)>>}, nested |-> n] :
            n \in NestedShapes({"author", "assets"})}

ReleaseEntry(shape) ==
    MkObj(shape.body
          \cup OptAll(ReleaseSimpleKeys,
                      IF shape.nested \in {"absent", "null"} THEN shape.nested ELSE "present",
                      Str("v"))
          \cup NestedField("author", shape.nested, User)
          \cup NestedField("assets", shape.nested, Assets))

ReleasePayloads ==
    {List([i \in 1..Len(q) |-> ReleaseEntry(q[i])]) : q \in SeqsUpTo(ReleaseShapes, MaxItems)}

IsText(v) == v.t = "str" /\ "chars" \in DOMAIN v

\* release.get("body", "")[:500] + "..." if len(release.get("body", "")) > 500
\*                                      else release.get("body", "")
ReleaseBody(release) ==
    LET body == GetD(release, "body", Text(<<>>)) IN
    IF Len(body.chars) > BodyLimit
      THEN Text(SubSeq(body.chars, 1, BodyLimit) \o Ellipsis)
      ELSE body

ReleaseError(release) ==
    IF ~IsObj(GetD(release, "author", EmptyObj)) THEN "AttributeError"
    ELSE IF ~IsList(GetD(release, "assets", EmptyList)) THEN "TypeError"
    ELSE IF ~IsText(GetD(release, "body", Text(<<>>))) THEN "TypeError"
    ELSE ""

Release(release) ==
    MkObj({<<"name", Get(release, "name")>>,
           <<"tag_name", Get(release, "tag_name")>>,
           <<"published_at", Get(release, "published_at")>>,
           <<"created_at", Get(release, "created_at")>>,
           <<"author", Get(GetD(release, "author", EmptyObj), "login")>>,
           <<"prerelease", Get(release, "prerelease")>>,
           <<"draft", Get(release, "draft")>>,
           <<"assets_count", Num(Len(GetD(release, "assets", EmptyList).items))>>,
           <<"body", ReleaseBody(release)>>,
           <<"url", Get(release, "html_url")>>})

GetRepositoryReleases(h) ==
    IF h.raised THEN Raised("ValueError")
    ELSE IF HasError(h.ret) THEN Returned(JsonDumps(h.ret))
    ELSE IF ~Walkable(h.ret) THEN Raised("AttributeError")
    ELSE LET err == FirstError([i \in 1..Len(h.ret.items) |->
                                    ReleaseError(h.ret.items[i])])
         IN IF err # "" THEN Raised(err)
            ELSE Returned(JsonDumpsIndent(
                    List([i \in 1..Len(h.ret.items) |-> Release(h.ret.items[i])]), 2))

ReleaseCalls ==
    CallsOf("get_repository_releases",
            {[owner |-> Owner, repo |-> Repo, per_page |-> pp] : pp \in PerPageArgs},
            [owner |-> Owner, repo |-> Repo, per_page |-> [given |-> FALSE]],
            EmptyList, ReleasePayloads)

get_repository_releases ==
    /\ pc = "called"
    /\ tool = "get_repository_releases"
    /\ LET h == MakeGithubRequest(<<"repos", args.owner, args.repo, "releases">>,
                                  [per_page |-> PerPageParam(tool, args.per_page)], net)
       IN /\ request' = h.sent
          /\ data' = HelperData(h)
          /\ out' = GetRepositoryReleases(h)
    /\ pc' = "returned"
    /\ UNCHANGED <<inputVars, configVars, agentVars, frontVars>>

-----------------------------------------------------------------------------
(* search_repositories *)

Query == "llama stack"
\* sort: str = "stars", order: str = "desc"
SortOrderArgs == {[given |-> FALSE], [given |-> TRUE, sort |-> "forks", order |-> "asc"]}
SortParam(so) == IF so.given THEN so.sort ELSE "stars"
OrderParam(so) == IF so.given THEN so.order ELSE "desc"

FoundSimpleKeys ==
    {"name", "full_name", "description", "language", "stargazers_count",
     "forks_count", "open_issues_count", "created_at", "updated_at", "html_url"}

FoundShapes ==
    {[simple |-> v, topics |-> v, lic |-> {<<"license", Null>>}] : v \in Variants}
    \cup {[simple |-> "present", topics |-> "present", lic |-> l] :
            l \in {{}} \cup {{<<"license", x>>} : x \in LicenseValues}}

FoundEntry(shape) ==
    MkObj(OptAll(FoundSimpleKeys, shape.simple, Str("v"))
          \cup Opt("topics", shape.topics, List(<<Str("cli")>>))
          \cup shape.lic)

SearchPayloads ==
    {MkObj(OptAll({"total_count", "incomplete_results"}, v, Num(1)) \cup items) :
        v \in Variants,
        items \in {{}, {<<"items", Null>>}}
                  \cup {{<<"items", List(q)>>} :
                          q \in SeqsUpTo({FoundEntry(sh) : sh \in FoundShapes}, MaxItems)}}

FoundError(repo) == IF LicenseRaises(repo) THEN "AttributeError" ELSE ""

Found(repo) ==
    MkObj({<<"name", Get(repo, "name")>>,
           <<"full_name", Get(repo, "full_name")>>,
           <<"description", Get(repo, "description")>>,
           <<"language", Get(repo, "language")>>,
           <<"stars", Get(repo, "stargazers_count")>>,
           <<"forks", Get(repo, "forks_count")>>,
           <<"open_issues", Get(repo, "open_issues_count")>>,
           <<"created_at", Get(repo, "created_at")>>,
           <<"updated_at", Get(repo, "updated_at")>>,
           <<"topics", GetD(repo, "topics", EmptyList)>>,
           <<"license", LicenseName(repo)>>,
           <<"url", Get(repo, "html_url")>>})

SearchRepositories(h) ==
    IF h.raised THEN Raised("ValueError")
    ELSE IF HasError(h.ret) THEN Returned(JsonDumps(h.ret))
    ELSE IF ~IsObj(h.ret) THEN Raised("AttributeError")
    ELSE LET items == GetD(h.ret, "items", EmptyList) IN
         IF ~IsList(items) THEN Raised("TypeError")
         ELSE IF ~Walkable(items) THEN Raised("AttributeError")
         ELSE LET err == FirstError([i \in 1..Len(items.items) |->
                                         FoundError(items.items[i])])
              IN IF err # "" THEN Raised(err)
                 ELSE Returned(JsonDumpsIndent(
                        MkObj({<<"total_count", Get(h.ret, "total_count")>>,
                               <<"incomplete_results", Get(h.ret, "incomplete_results")>>,
                               <<"repositories",
                                 List([i \in 1..Len(items.items) |-> Found(items.items[i])])>>}),
                        2))

SearchCalls ==
    CallsOf("search_repositories",
            {[query |-> Query, sorting |-> so, per_page |-> pp] :
                so \in SortOrderArgs, pp \in PerPageArgs},
            [query |-> Query, sorting |-> [given |-> FALSE], per_page |-> [given |-> FALSE]],
            EmptyObj, SearchPayloads)

search_repositories ==
    /\ pc = "called"
    /\ tool = "search_repositories"
    /\ LET h == MakeGithubRequest(<<"search", "repositories">>,
                                  [q |-> args.query, sort |-> SortParam(args.sorting),
                                   order |-> OrderParam(args.sorting),
                                   per_page |-> PerPageParam(tool, args.per_page)], net)
       IN /\ request' = h.sent
          /\ data' = HelperData(h)
          /\ out' = SearchRepositories(h)
    /\ pc' = "returned"
    /\ UNCHANGED <<inputVars, configVars, agentVars, frontVars>>

-----------------------------------------------------------------------------
(* get_repository_languages *)

Langs == {"Python", "JS", "Go"}

\* the upstream maps: distinct languages of Langs, in any order, each with
\* a byte count of 0..MaxBytes
RECURSIVE LangMaps(_)
LangMaps(n) ==
    IF n = 0 THEN {<<>>}
    ELSE LET shorter == LangMaps(n - 1) IN
         shorter \cup
         {Append(q, [k |-> l, v |-> Num(b)]) :
            q \in {r \in shorter : Len(r) = n - 1},
            l \in Langs, b \in 0..MaxBytes}
LangPayloads ==
    {ODict(q) : q \in {r \in LangMaps(Cardinality(Langs)) :
                        \A i, j \in 1..Len(r) : i # j => r[i].k # r[j].k}}

\* a number with two decimals, kept as its count of hundredths
Dec2(h) == [t |-> "num", hundredths |-> h]

\* sum(data.values())
RECURSIVE SumValues(_)
SumValues(items) ==
    IF items = <<>> THEN 0 ELSE Head(items).v.n + SumValues(Tail(items))

\* round(n / d * 100, 2) in hundredths, for n >= 0 and d > 0: the nearest
\* hundredth, a tie going to the even one
RoundPercent(n, d) ==
    LET q == (n * 10000) \div d
        r == (n * 10000) % d
    IN IF 2 * r < d THEN q
       ELSE IF 2 * r > d THEN q + 1
       ELSE IF q % 2 = 0 THEN q ELSE q + 1

\* (bytes_count / total_bytes * 100) if total_bytes > 0 else 0, then rounded
Percentage(bytes, total) ==
    IF total > 0 THEN Dec2(RoundPercent(bytes, total)) ELSE Dec2(0)

\* where sorted(..., reverse=True) puts x among the already sorted items:
\* behind every item whose key is not smaller (the sort is stable)
RECURSIVE InsertDesc(_, _)
InsertDesc(x, sorted) ==
    IF sorted = <<>> THEN <<x>>
    ELSE IF Head(sorted).v.f["bytes"].n >= x.v.f["bytes"].n
      THEN <<Head(sorted)>> \o InsertDesc(x, Tail(sorted))
      ELSE <<x>> \o sorted

\* a slip in the sort: the entries are left in upstream order
Unsorted(items) == items

\* sorted(items, key=lambda x: x[1]["bytes"], reverse=True)
RECURSIVE SortedByBytes(_)
SortedByBytes(items) ==
    IF items = <<>> THEN <<>>
    ELSE InsertDesc(items[Len(items)], SortedByBytes(SubSeq(items, 1, Len(items) - 1)))

LanguagesWithPercentages(d) ==
    LET total == SumValues(d.items) IN
    [i \in 1..Len(d.items) |->
        [k |-> d.items[i].k,
         v |-> MkObj({<<"bytes", d.items[i].v>>,
                      <<"percentage", Percentage(d.items[i].v.n, total)>>})]]

GetRepositoryLanguages(h) ==
    IF h.raised THEN Raised("ValueError")
    ELSE IF HasError(h.ret) THEN Returned(JsonDumps(h.ret))
    ELSE Returned(JsonDumpsIndent(
            ODict(SortedByBytes(LanguagesWithPercentages(h.ret))), 2))

LanguageCalls ==
    CallsOf("get_repository_languages", {[owner |-> Owner, repo |-> Repo]}, [owner |-> Owner, repo |-> Repo], ODict(<<>>), LangPayloads)

get_repository_languages ==
    /\ pc = "called"
    /\ tool = "get_repository_languages"
    /\ LET h == MakeGithubRequest(<<"repos", args.owner, args.repo, "languages">>,
                                  NoParams, net)
       IN /\ request' = h.sent
          /\ data' = HelperData(h)
          /\ out' = GetRepositoryLanguages(h)
    /\ pc' = "returned"
    /\ UNCHANGED <<inputVars, configVars, agentVars, frontVars>>

-----------------------------------------------------------------------------
(* web_search_tools: module state, web_search, is_tavily_configured *)

KeyValues == {"unset", "empty", "set"}
\* `if TAVILY_API_KEY:` - an unset or empty variable is falsy
KeyTruthy(key) == key = "set"

\* a slip in `if TAVILY_API_KEY:`: the key is tested with `is not None`
LoadClientIfNotNone(key, ctorOk) == IF key # "unset" /\ ctorOk THEN "client" ELSE "None"

\* tavily_client after the module is loaded; ctorOk: TavilyClient(...) did
\* not throw
LoadClient(key, ctorOk) == IF KeyTruthy(key) /\ ctorOk THEN "client" ELSE "None"

\* bool(TAVILY_API_KEY and tavily_client)
IsTavilyConfigured(key, client) == KeyTruthy(key) /\ client # "None"

MaxResultsCeiling == 5
MaxResultsGiven == {1, 5, 6, 20}
MaxResultsArgs ==
    {[given |-> FALSE]} \cup {[given |-> TRUE, n |-> n] : n \in MaxResultsGiven}
\* max_results: int = 5
MaxResultsArg(mr) == IF mr.given THEN mr.n ELSE 5
\* a slip in the ceiling: the docstring's 10 instead of 5
ClampMaxResultsTo10(n) == Min(n, 10)

\* min(max_results, 5)
ClampMaxResults(n) == Min(n, MaxResultsCeiling)

Queries == {"llama stack", "tla+"}

ResultKeys == {"title", "url", "content", "published_date"}
ResultEntries ==
    {MkObj(OptAll(ResultKeys, v, Str("v")) \cup Opt("score", v, Num(1))) : v \in Variants}

\* what tavily_client.search can do: throw, or return a response
ProviderOutcomes ==
    {[kind |-> "failure", exc |-> "Exception"]}
    \cup {[kind |-> "response", body |-> MkObj(r)] :
            r \in {{}, {<<"results", Null>>}}
                  \cup {{<<"results", List(q)>>} : q \in SeqsUpTo(ResultEntries, MaxItems)}}

SearchResult(r) ==
    MkObj({<<"title", GetD(r, "title", Str(""))>>,
           <<"url", GetD(r, "url", Str(""))>>,
           <<"content", GetD(r, "content", Str(""))>>,
           <<"published_date", GetD(r, "published_date", Str(""))>>,
           <<"score", GetD(r, "score", Num(0))>>})

NotConfiguredError ==
    Obj([k \in {"error"} |->
            Str("Tavily API key not configured. Set TAVILY_API_KEY environment variable.")])
WebSearchError(e) == Obj([k \in {"error"} |-> Msg("Web search failed: ", e)])

\* the provider searches one web_search call issues
ProviderCalls(client, query, mr) ==
    IF client = "None" THEN <<>>
    ELSE << [query |-> query, max_results |-> ClampMaxResults(MaxResultsArg(mr)),
             search_depth |-> "basic"] >>

\* web_search(query, max_results) when the provider does `o`
WebSearch(client, query, mr, o) ==
    IF client = "None" THEN Returned(JsonDumps(NotConfiguredError))
    ELSE IF o.kind = "failure" THEN Returned(JsonDumps(WebSearchError(o.exc)))
    ELSE LET results == GetD(o.body, "results", EmptyList) IN
         IF ~IsList(results) THEN Returned(JsonDumps(WebSearchError("TypeError")))
         ELSE IF ~Walkable(results) THEN Returned(JsonDumps(WebSearchError("AttributeError")))
         ELSE Returned(JsonDumpsIndent(
                MkObj({<<"query", Str(query)>>,
                       <<"results",
                         List([i \in 1..Len(results.items) |->
                                 SearchResult(results.items[i])])>>}),
                2))

\* the invocations of web_search the oracle can make, each with what the
\* provider would do to its search
WebSearchCalls ==
    {[tool |-> "web_search", args |-> [query |-> q, max_results |-> mr], net |-> o] :
        q \in Queries, mr \in MaxResultsArgs, o \in ProviderOutcomes}

web_search ==
    /\ pc = "called"
    /\ tool = "web_search"
    /\ request' = ProviderCalls(tavily_client, args.query, args.max_results)
    /\ data' = [raised |-> FALSE, ret |-> Null]
    /\ out' = WebSearch(tavily_client, args.query, args.max_results, net)
    /\ pc' = "returned"
    /\ UNCHANGED <<inputVars, configVars, agentVars, frontVars>>

-----------------------------------------------------------------------------
(* github_agent.GitHubProjectAnalyst *)

GithubTools ==
    <<"get_repository_info", "get_repository_languages",
      "get_repository_contributors", "get_repository_issues",
      "get_repository_pulls", "get_repository_releases", "search_repositories">>

\* a slip in __init__: web_search is registered whatever the configuration
InitToolsWithWebSearch(key, client) == Append(GithubTools, "web_search")

\* tools_list as __init__ builds it
InitTools(key, client) ==
    IF IsTavilyConfigured(key, client) THEN Append(GithubTools, "web_search")
    ELSE GithubTools

\* what the oracle does with a create_session or create_turn request
OracleOutcomes == {"ok", "failure"}

\* create_session(session_name): the oracle assigns the id
create_session ==
    \E named \in BOOLEAN, o \in OracleOutcomes :
        /\ Len(sessions) < MaxSessions
        /\ IF o = "ok"
             THEN /\ sessions' = Append(sessions, Len(sessions) + 1)
                  /\ turns' = Append(turns, 0)
                  /\ chat_result' = [op |-> "create_session", raised |-> FALSE,
                                     value |-> Len(sessions) + 1]
             ELSE /\ chat_result' = [op |-> "create_session", raised |-> TRUE, value |-> 0]
                  /\ UNCHANGED <<sessions, turns>>
        /\ UNCHANGED <<tools_list, configVars, callVars, frontVars>>

\* _chat(message, session_id): one turn, the oracle's answer or its failure
chat ==
    \E sid \in 1..Len(sessions), o \in OracleOutcomes :
        /\ turns[sid] < MaxTurns
        /\ IF o = "ok"
             THEN /\ turns' = [turns EXCEPT ![sid] = @ + 1]
                  /\ chat_result' = [op |-> "chat", raised |-> FALSE, value |-> sid]
             ELSE /\ chat_result' = [op |-> "chat", raised |-> TRUE, value |-> sid]
                  /\ UNCHANGED turns
        /\ UNCHANGED <<tools_list, sessions, configVars, callVars, frontVars>>

-----------------------------------------------------------------------------
(* github_agent_api: POST /chat, and github_agent.interactive_mode *)

\* ChatRequest.session_id (Optional[str]) and ChatResponse.session_id: None,
\* the empty string, the id of the oracle's n-th session, an id that names
\* no session, or the literal "unknown"
NoSessionId == [t |-> "null", s |-> "", n |-> 0]
EmptySessionId == [t |-> "str", s |-> "", n |-> 0]
SessionId(n) == [t |-> "str", s |-> "session", n |-> n]
StaleSessionId == [t |-> "str", s |-> "stale", n |-> 0]
UnknownSessionId == [t |-> "str", s |-> "unknown", n |-> 0]

\* what a client can send as session_id: nothing, an id the API has created
\* (the CLI never shows its own), or an id that names no session
SessionIdsGiven(ss, c) ==
    {NoSessionId, EmptySessionId, StaleSessionId}
        \cup ({SessionId(ss[i]) : i \in 1..Len(ss)} \ {c.session_id})

\* str(e) of the exception the oracle's client raises, and an answer's text
OracleError == "oracle failure"
Answer == "answer"

\* the oracle creates a session unless it is at its capacity
CreateOutcomes(ss) == IF Len(ss) < MaxSessions THEN OracleOutcomes ELSE {"failure"}

\* the oracle runs a turn only on a session it has created
TurnOutcomes(sid, ss) ==
    IF \E i \in 1..Len(ss) : SessionId(ss[i]) = sid THEN OracleOutcomes
    ELSE {"failure"}

\* a slip in _chat: it catches the oracle's failure and returns its text
ChatCaught(o) ==
    [raised |-> FALSE, value |-> IF o = "ok" THEN Answer ELSE OracleError]

\* _chat(message, session_id): create_turn with no try around it
ChatReturn(o) ==
    IF o = "ok" THEN [raised |-> FALSE, value |-> Answer]
    ELSE [raised |-> TRUE, value |-> OracleError]

\* a slip in the except branch: the handler's local session_id is reported
LocalSessionId(given, local) ==
    IF Truthy(local) THEN local ELSE UnknownSessionId

\* request.session_id or "unknown"
FailureSessionId(given, local) ==
    IF Truthy(given) THEN given ELSE UnknownSessionId

\* a handler declared with def runs in the thread pool and never holds the loop
LoopFree(h) == FALSE

\* chat_with_agent is a coroutine with no await: while it runs, and while
\* its _chat waits for the oracle, the event loop starts no other handler
LoopBusy(h) == h.pc # "idle"

IdleHandler ==
    [pc |-> "idle", req |-> [id |-> 0, session_id |-> NoSessionId],
     session_id |-> NoSessionId, created |-> {}]

NoResponse ==
    [id |-> 0, given |-> NoSessionId, status |-> 0, success |-> FALSE,
     session_id |-> NoSessionId, response |-> "", error |-> "",
     created |-> {}, dispatched |-> NoSessionId,
     oracle |-> [stage |-> "none", outcome |-> "none"]]

\* raise HTTPException(status_code=503, detail="Agent not initialized")
ServiceUnavailable(req) ==
    [NoResponse EXCEPT !.id = req.id, !.given = req.session_id, !.status = 503,
                       !.error = "Agent not initialized"]

\* The ChatResponse of a handler with locals h whose last oracle call (stage)
\* ended as r.  created, dispatched and oracle are not part of the response:
\* they record the sessions the handler created, the session its create_turn
\* went to, and what the oracle did.
ChatResponse(h, r, stage, o) ==
    [id |-> h.req.id, given |-> h.req.session_id, status |-> 200,
     success |-> ~r.raised,
     session_id |-> IF r.raised
                      THEN FailureSessionId(h.req.session_id, h.session_id)
                      ELSE h.session_id,
     response |-> IF r.raised THEN "" ELSE r.value,
     error |-> IF r.raised THEN r.value ELSE "",
     created |-> h.created,
     dispatched |-> IF stage = "create_turn" THEN h.session_id ELSE NoSessionId,
     oracle |-> [stage |-> stage, outcome |-> o]]

\* the create_turn call of POST /chat request h.req, as the oracle sees it
ApiTurn(h) == [who |-> "api", id |-> h.req.id, session_id |-> h.session_id]
CliTurn(c) == [who |-> "cli", id |-> 0, session_id |-> c.session_id]

\* a client sends POST /chat
post_chat ==
    \E s \in SessionIdsGiven(sessions, cli) :
        /\ submitted < MaxRequests
        /\ submitted' = submitted + 1
        /\ inbox' = Append(inbox, [id |-> submitted + 1, session_id |-> s])
        /\ UNCHANGED <<agent_instance, handler, response, active, cli,
                       agentVars, configVars, callVars>>

\* chat_with_agent, up to its call of create_turn
chat_with_agent ==
    /\ inbox # <<>>
    /\ ~LoopBusy(handler)
    /\ inbox' = Tail(inbox)
    /\ LET req == Head(inbox)
           h == [pc |-> "in_turn", req |-> req, session_id |-> req.session_id,
                 created |-> {}]
           new == Len(sessions) + 1
           hnew == [h EXCEPT !.session_id = SessionId(new), !.created = {new}]
       IN IF ~agent_instance
            THEN /\ response' = ServiceUnavailable(req)
                 /\ UNCHANGED <<handler, active, sessions, turns>>
            ELSE IF Truthy(req.session_id)
                   THEN /\ handler' = h
                        /\ active' = active \cup {ApiTurn(h)}
                        /\ UNCHANGED <<response, sessions, turns>>
                   ELSE \E o \in CreateOutcomes(sessions) :
                            IF o = "ok"
                              THEN /\ sessions' = Append(sessions, new)
                                   /\ turns' = Append(turns, 0)
                                   /\ handler' = hnew
                                   /\ active' = active \cup {ApiTurn(hnew)}
                                   /\ UNCHANGED response
                              ELSE /\ response' =
                                         ChatResponse(h, [raised |-> TRUE, value |-> OracleError],
                                                      "create_session", o)
                                   /\ UNCHANGED <<handler, active, sessions, turns>>
    /\ UNCHANGED <<agent_instance, submitted, cli, tools_list, chat_result,
                   configVars, callVars>>

\* chat_with_agent, from the return (or the raise) of _chat to its response
chat_with_agent_returns ==
    /\ handler.pc = "in_turn"
    /\ \E o \in TurnOutcomes(handler.session_id, sessions) :
           /\ response' = ChatResponse(handler, ChatReturn(o), "create_turn", o)
           /\ turns' = IF o = "ok"
                         THEN [turns EXCEPT ![handler.session_id.n] = @ + 1]
                         ELSE turns
    /\ handler' = IdleHandler
    /\ active' = active \ {ApiTurn(handler)}
    /\ UNCHANGED <<agent_instance, inbox, submitted, cli, tools_list, sessions,
                   chat_result, configVars, callVars>>

CliPrinted(kind, text) == [kind |-> kind, text |-> text]
CliOff ==
    [pc |-> "off", session_id |-> NoSessionId, printed |-> CliPrinted("none", ""),
     oracle |-> "none"]

\* interactive_mode, up to its first prompt: create_session is outside the try
interactive_mode ==
    /\ cli.pc = "off"
    /\ \E o \in CreateOutcomes(sessions) :
           IF o = "ok"
             THEN /\ sessions' = Append(sessions, Len(sessions) + 1)
                  /\ turns' = Append(turns, 0)
                  /\ cli' = [cli EXCEPT !.pc = "reading",
                                        !.session_id = SessionId(Len(sessions) + 1)]
             ELSE /\ cli' = [cli EXCEPT !.pc = "raised", !.oracle = "none"]
                  /\ UNCHANGED <<sessions, turns>>
    /\ UNCHANGED <<apiVars, active, tools_list, chat_result, configVars, callVars>>

CliInputs == {"quit", "blank", "message", "interrupt"}

\* one pass of the loop, up to the call of create_turn (or to the break)
interactive_input ==
    /\ cli.pc = "reading"
    /\ \E input \in CliInputs :
           CASE input \in {"quit", "interrupt"} ->
                  /\ cli' = [cli EXCEPT !.pc = "exited", !.oracle = "none",
                                        !.printed = CliPrinted("goodbye", "")]
                  /\ UNCHANGED active
             [] input = "blank" ->
                  /\ cli' = [cli EXCEPT !.oracle = "none",
                                        !.printed = CliPrinted("none", "")]
                  /\ UNCHANGED active
             [] input = "message" ->
                  /\ turns[cli.session_id.n] < MaxTurns
                  /\ cli' = [cli EXCEPT !.pc = "in_turn", !.oracle = "none",
                                        !.printed = CliPrinted("query", "")]
                  /\ active' = active \cup {CliTurn(cli)}
    /\ UNCHANGED <<apiVars, agentVars, configVars, callVars>>

\* the rest of the pass: _chat returns or raises, or the user interrupts it
interactive_returns ==
    /\ cli.pc = "in_turn"
    /\ \E o \in OracleOutcomes \cup {"interrupt"} :
           IF o = "interrupt"
             THEN /\ cli' = [cli EXCEPT !.pc = "exited", !.oracle = "none",
                                        !.printed = CliPrinted("goodbye", "")]
                  /\ UNCHANGED turns
             ELSE LET r == ChatReturn(o)
                  IN /\ cli' = [cli EXCEPT
                                  !.pc = "reading", !.oracle = o,
                                  !.printed = IF r.raised
                                                THEN CliPrinted("error", r.value)
                                                ELSE CliPrinted("result", r.value)]
                     /\ turns' = IF o = "ok"
                                   THEN [turns EXCEPT ![cli.session_id.n] = @ + 1]
                                   ELSE turns
    /\ active' = active \ {CliTurn(cli)}
    /\ UNCHANGED <<apiVars, tools_list, sessions, chat_result, configVars, callVars>>

-----------------------------------------------------------------------------
(* Specifications *)

\* no tool invocation at hand
NoCall ==
    /\ pc = "idle"
    /\ tool = "none"
    /\ args = NoParams
    /\ net = [kind |-> "none"]
    /\ request = <<>>
    /\ data = [raised |-> FALSE, ret |-> Null]
    /\ out = NoOut

\* the oracle has invoked a tool, which has not run yet
Called(calls) ==
    /\ pc = "called"
    /\ \E c \in calls : tool = c.tool /\ args = c.args /\ net = c.net
    /\ request = <<>>
    /\ data = [raised |-> FALSE, ret |-> Null]
    /\ out = NoOut

NoAgentCall ==
    /\ sessions = <<>>
    /\ turns = <<>>
    /\ chat_result = [op |-> "init", raised |-> FALSE, value |-> 0]

\* neither the API nor the CLI is at work
NoFront ==
    /\ agent_instance = FALSE
    /\ inbox = <<>>
    /\ submitted = 0
    /\ handler = IdleHandler
    /\ response = NoResponse
    /\ active = {}
    /\ cli = CliOff

\* the process once web_search_tools is loaded and the agent is constructed
Loaded ==
    /\ TAVILY_API_KEY \in KeyValues
    /\ \E ctorOk \in BOOLEAN : tavily_client = LoadClient(TAVILY_API_KEY, ctorOk)
    /\ tools_list = InitTools(TAVILY_API_KEY, tavily_client)

\* The data-fetch tools: one invocation, drawn with its upstream outcome.
\* github_tools reads nothing of the search configuration, so the process
\* is one without a search key.
Init ==
    /\ TAVILY_API_KEY = "unset"
    /\ tavily_client = LoadClient(TAVILY_API_KEY, TRUE)
    /\ tools_list = InitTools(TAVILY_API_KEY, tavily_client)
    /\ NoAgentCall
    /\ NoFront
    /\ Called(InfoCalls \cup LanguageCalls \cup ContributorCalls \cup IssueCalls
              \cup PullCalls \cup ReleaseCalls \cup SearchCalls)

Next ==
    \/ get_repository_info
    \/ get_repository_languages
    \/ get_repository_contributors
    \/ get_repository_issues
    \/ get_repository_pulls
    \/ get_repository_releases
    \/ search_repositories

Spec == Init /\ [][Next]_vars

\* the web-search tool: one invocation, under every search configuration
InitWeb == Loaded /\ NoAgentCall /\ NoFront /\ Called(WebSearchCalls)
NextWeb == web_search
SpecWeb == InitWeb /\ [][NextWeb]_vars

\* the session manager, under every search configuration
InitAgent == Loaded /\ NoAgentCall /\ NoFront /\ NoCall
NextAgent == create_session \/ chat
SpecAgent == InitAgent /\ [][NextAgent]_vars

\* The API server and the CLI, two clients of one oracle: startup_event has
\* built the agent or failed to, and interactive_mode has not started.
InitFront ==
    /\ Loaded
    /\ NoAgentCall
    /\ NoCall
    /\ agent_instance \in BOOLEAN
    /\ inbox = <<>>
    /\ submitted = 0
    /\ handler = IdleHandler
    /\ response = NoResponse
    /\ active = {}
    /\ cli = CliOff

NextFront ==
    \/ post_chat
    \/ chat_with_agent
    \/ chat_with_agent_returns
    \/ interactive_mode
    \/ interactive_input
    \/ interactive_returns

SpecFront == InitFront /\ [][NextFront]_vars

-----------------------------------------------------------------------------
(* Properties *)

DataFetchTools == {GithubTools[i] : i \in 1..Len(GithubTools)}
PaginatedTools ==
    {"get_repository_contributors", "get_repository_issues", "get_repository_pulls",
     "get_repository_releases", "search_repositories"}

\* a data-fetch tool has run to its end
Ran == pc = "returned" /\ tool \in DataFetchTools

\* {error: E} and nothing else
IsErrorObject(d) == d.t = "obj" /\ DOMAIN d.f = {"error"}

\* the GET ended in a 2xx response whose body is JSON
Fetched == net.kind = "response" /\ net.isJson /\ 200 <= net.status /\ net.status < 300

\* C1: whenever the helper returns {error: E} to one of the seven data-fetch
\* tools, the tool returns the compact JSON encoding of exactly that object:
\* nothing is projected and no key is added.
C1_ErrorPassedThrough ==
    (Ran /\ ~data.raised /\ IsErrorObject(data.ret))
        => /\ ~out.raised
           /\ out.text.layout = "compact"
           /\ out.text.json = data.ret
           /\ DOMAIN out.text.json.f = {"error"}

\* C1 witness: search_repositories has returned the helper's error of a 404
C1_Witness ==
    /\ Ran /\ tool = "search_repositories"
    /\ net.kind = "response" /\ net.status = 404
    /\ IsErrorObject(data.ret)
    /\ ~out.raised /\ out.text.json = data.ret

C3_NeverRaisesOnPayload ==
    (Ran /\ Fetched) => ~out.raised

\* the entries of the issues payload whose pull_request is absent or null
PullRequestAbsentOrNull(issue) == IsNull(Get(issue, "pull_request"))

\* C4 as claimed: the output of get_repository_issues holds, in upstream
\* order, one record for each entry whose pull_request is absent or null
\* and none for an entry whose pull_request is anything else.  Stated of
\* the runs that give an output, so that what it refutes is the filter.
C4_OnlyNonNullPullRequestsDropped ==
    (Ran /\ tool = "get_repository_issues" /\ Fetched /\ ~out.raised)
        => Pluck(out.text.json, "number")
             = Pluck(List(SelectSeq(data.ret.items, PullRequestAbsentOrNull)), "number")

\* the body the claim gives a release: the first 500 characters and "..."
\* when the upstream body is longer, else the upstream body ("" when absent)
ClaimedBody(release) ==
    LET chars == IF "body" \in DOMAIN release.f /\ IsText(release.f["body"])
                 THEN release.f["body"].chars ELSE <<>>
    IN IF Len(chars) > 500
       THEN Text([i \in 1..503 |-> IF i <= 500 THEN chars[i] ELSE 46])
       ELSE Text(chars)

\* C5 as claimed: for every release the upstream sends,
\* get_repository_releases outputs the body truncated to 500 characters
\* plus "..." when it is longer than 500, and unchanged otherwise.
C5_EveryReleaseBodyTruncated ==
    (Ran /\ tool = "get_repository_releases" /\ Fetched)
        => /\ ~out.raised
           /\ Len(out.text.json.items) = Len(data.ret.items)
           /\ \A i \in 1..Len(data.ret.items) :
                 Get(out.text.json.items[i], "body") = ClaimedBody(data.ret.items[i])

\* C5 on the runs that return: the truncation rule itself
C5_ReturnedBodiesTruncated ==
    (Ran /\ tool = "get_repository_releases" /\ Fetched /\ ~out.raised)
        => /\ Len(out.text.json.items) = Len(data.ret.items)
           /\ \A i \in 1..Len(data.ret.items) :
                 Get(out.text.json.items[i], "body") = ClaimedBody(data.ret.items[i])

\* the page size the caller asked for, the signature's default when omitted
RequestedPerPage ==
    IF args.per_page.given THEN args.per_page.n
    ELSE IF tool \in {"get_repository_releases", "search_repositories"} THEN 10
    ELSE 30

\* C6: each of the five paginated tools sends per_page = min(n, 100), never
\* more than 100, where n is the requested page size, or 30 (contributors,
\* issues, pulls) or 10 (releases, search) when the caller omits it.
C6_PerPageClamped ==
    (Ran /\ tool \in PaginatedTools)
        => /\ Len(request) = 1
           /\ request[1].params.per_page <= 100
           /\ request[1].params.per_page
                = (IF RequestedPerPage <= 100 THEN RequestedPerPage ELSE 100)

\* C6 witness: contributors asked for 500 and 100 was sent
C6_Witness ==
    /\ Ran /\ tool = "get_repository_contributors"
    /\ args.per_page.given /\ args.per_page.n = 500
    /\ request[1].params.per_page = 100

\* the output of get_repository_languages as a sequence of its entries
LangOut == out.text.json.items
LangIn == data.ret.items
LangTotal == SumValues(LangIn)

\* C7: get_repository_languages outputs one entry per upstream language,
\* in descending order of byte count, each with its byte count and with
\* percentage = bytes / total * 100 to the nearest hundredth (0 when the
\* total is 0); an empty map gives an empty result and no error.
C7_LanguagePercentages ==
    (Ran /\ tool = "get_repository_languages" /\ Fetched)
        => /\ ~out.raised
           /\ Len(LangOut) = Len(LangIn)
           /\ \A i \in 1..Len(LangIn) : \E j \in 1..Len(LangOut) :
                 /\ LangOut[j].k = LangIn[i].k
                 /\ LangOut[j].v.f["bytes"] = LangIn[i].v
           /\ \A j \in 1..Len(LangOut) :
                 LET bytes == LangOut[j].v.f["bytes"].n
                     pct == LangOut[j].v.f["percentage"].hundredths
                 IN IF LangTotal = 0 THEN pct = 0
                    ELSE /\ 2 * (pct * LangTotal - bytes * 10000) <= LangTotal
                         /\ 2 * (bytes * 10000 - pct * LangTotal) <= LangTotal
           /\ \A j \in 1..(Len(LangOut) - 1) :
                 LangOut[j].v.f["bytes"].n >= LangOut[j + 1].v.f["bytes"].n

\* C7 witness: {JS: 1, Python: 3} came out as Python 75.0 then JS 25.0
C7_Witness ==
    /\ Ran /\ tool = "get_repository_languages" /\ Fetched
    /\ LangIn = <<[k |-> "JS", v |-> Num(1)], [k |-> "Python", v |-> Num(3)]>>
    /\ ~out.raised
    /\ Len(LangOut) = 2
    /\ LangOut[1].k = "Python" /\ LangOut[1].v.f["percentage"].hundredths = 7500
    /\ LangOut[2].k = "JS" /\ LangOut[2].v.f["percentage"].hundredths = 2500

\* a web_search invocation has run to its end
RanWeb == pc = "returned" /\ tool = "web_search"

\* C8: without a search key at startup, is_tavily_configured() is false and
\* web_search returns the configuration error without a provider call.
C8_NoKeyNoSearch ==
    TAVILY_API_KEY \in {"unset", "empty"}
        => /\ ~IsTavilyConfigured(TAVILY_API_KEY, tavily_client)
           /\ RanWeb =>
                /\ request = <<>>
                /\ ~out.raised
                /\ out.text.json.t = "obj"
                /\ DOMAIN out.text.json.f = {"error"}
                /\ out.text.json.f["error"] =
                     Str("Tavily API key not configured. Set TAVILY_API_KEY environment variable.")

\* C8 witness: web_search has run in a process whose key is the empty string
C8_Witness ==
    /\ RanWeb /\ TAVILY_API_KEY = "empty"
    /\ request = <<>>
    /\ IsErrorObject(out.text.json)

\* the result count the caller asked for, 5 when omitted
RequestedMaxResults == IF args.max_results.given THEN args.max_results.n ELSE 5

SevenTools ==
    <<"get_repository_info", "get_repository_languages",
      "get_repository_contributors", "get_repository_issues",
      "get_repository_pulls", "get_repository_releases", "search_repositories">>

\* C10: after construction and after any create_session and _chat calls,
\* the registered tools are the seven data-fetch tools, followed by
\* web_search exactly when is_tavily_configured() held at startup.
C10_ToolsFixed ==
    tools_list = IF TAVILY_API_KEY = "set" /\ tavily_client = "client"
                 THEN SevenTools \o <<"web_search">>
                 ELSE SevenTools

\* C10 witness: a configured agent with a session created and a turn sent
C10_Witness ==
    /\ Len(tools_list) = 8
    /\ Len(sessions) >= 1
    /\ chat_result.op = "chat" /\ ~chat_result.raised
    /\ turns[1] >= 1


\* C11: an oracle failure during a turn leaves _chat as an exception, and the
\* caller presents it and lives on: POST /chat answers 200 with success false
\* and the error's text, and the CLI loop prints the error and is back at its
\* prompt.
C11_OracleFailurePresented ==
    /\ ChatReturn("failure") = [raised |-> TRUE, value |-> OracleError]
    /\ (response.oracle = [stage |-> "create_turn", outcome |-> "failure"]
          => /\ response.status = 200
             /\ ~response.success
             /\ response.error = OracleError
             /\ response.response = ""
             /\ agent_instance)
    /\ (cli.oracle = "failure"
          => /\ cli.pc = "reading"
             /\ cli.printed = CliPrinted("error", OracleError))

\* both callers have presented a failed turn
C11_Witness ==
    /\ response.oracle = [stage |-> "create_turn", outcome |-> "failure"]
    /\ ~response.success
    /\ cli.oracle = "failure"
    /\ cli.pc = "reading"

RepositoryFetched ==
    /\ Ran
    /\ tool = "get_repository_info"
    /\ Fetched
    /\ ~data.raised
    /\ IsObj(data.ret)
    /\ ~IsErrorObject(data.ret)

\* out is a record of exactly the allow-listed fields, the 15 named fields
\* read from the payload and license flattened to its name, each with the
\* payload's value
AllowListedRecord ==
    /\ ~out.raised
    /\ IsObj(out.text.json)
    /\ LET rec == out.text.json.f
           lic == Get(data.ret, "license")
       IN /\ DOMAIN rec = InfoKeys
          /\ Cardinality(DOMAIN rec \ {"license"}) = 15
          /\ \A k \in DOMAIN rec \ {"license", "topics"} :
                 rec[k] = Get(data.ret, InfoSource(k))
          /\ rec["license"] = IF IsObj(lic) THEN Get(lic, "name") ELSE Null
          /\ \A k \in DOMAIN data.ret.f \ {InfoSource(j) : j \in InfoKeys} :
                 k \notin DOMAIN rec

\* C13: for every successful repository payload, whatever extra fields it
\* carries, get_repository_info returns an object with exactly the
\* allow-listed fields (the 15 named fields and license, flattened to its
\* name), and no other field of the payload is surfaced.
C13_OnlyAllowListedFields == RepositoryFetched => AllowListedRecord

\* the same for the payloads that carry no field named error
C13_AllowListedWithoutErrorField ==
    (RepositoryFetched /\ ~HasError(data.ret)) => AllowListedRecord

\* the session ids the oracle has created
Created == {sessions[i] : i \in 1..Len(sessions)}

\* the request names a session: its session_id is neither missing nor empty
NamesSession(given) == given.t = "str" /\ given.s # ""

=============================================================================
